---- MODULE Spec2Model ----
(***************************************************************************)
(* State-machine model of the SourceScan verifier contract                 *)
(* (src/src/lib.rs): an owner-gated registry of verified contracts with    *)
(* per-record votes and a global comment log.                              *)
(*                                                                         *)
(* Every public method is one atomic action (the NEAR runtime runs one     *)
(* call at a time and reverts all state writes of a call that panics).     *)
(* A panicking call leaves the contract state as it was and is recorded    *)
(* only in the observation variable `last`.                                *)
(***************************************************************************)
EXTENDS Integers, Sequences, FiniteSets, TLC

\* ------------------------------------------------------------------ bounds

\* Highest number of committed (non-panicking) mutating calls in a run.
MaxCalls == 4

\* The number of values of a u64; 16 stands for 2^64, which is beyond the
\* integers of the model checker.  Arithmetic on u64 is done modulo it.
U64Modulus == 16

\* The largest usize of the wasm32 target the contract is built for; 7
\* stands for 2^32 - 1.  As on the target, the sum of a collection length
\* and a usize stays below U64Modulus.
UsizeMax == 7

\* ------------------------------------------------------------ input domains

\* Caller identities (env::predecessor_account_id()).
Accounts == {"alice", "bob", "carol"}

\* The account that deploys and initialises the contract.
Deployers == {"alice"}

\* Account identifiers used as keys of the registry.
ContractIds == {"alice", "bob"}

\* Option::None.
None == [some |-> FALSE]

\* Option::Some(x).
Some(x) == [some |-> TRUE, value |-> x]

\* Argument tuples of set_contract: (cid, code_hash, lang, entry_point,
\* builder_image, github).
FieldInputs ==
    { [cid |-> "cid", code_hash |-> "code_hash", lang |-> "lang",
       entry_point |-> "entry_point", builder_image |-> "builder_image",
       github |-> None],
      [cid |-> "cid1", code_hash |-> "hash1", lang |-> "Rust",
       entry_point |-> "main", builder_image |-> "rust:latest",
       github |-> Some([owner |-> "owner", repo |-> "repo", sha |-> "sha"])] }

\* Block timestamps the host clock shows (env::block_timestamp()).
BlockTimes == {0, 1}

\* Comment texts.
Contents == {"First comment", "Second comment"}

\* The accounts whose contracts are searched and listed.
QueryIds == {"account1.testnet", "account2.testnet", "bob.near"}

\* The keys searched for.
SearchKeys == {"account1", "ACCOUNT", "", "near", "b"}

\* The from_index and limit arguments of search and get_contracts.
Usizes == {0, 1, 2, 3, UsizeMax}

\* Panic messages.
ErrAdd == "attempt to add with overflow"
ErrSub == "attempt to subtract with overflow"
ErrDiv == "attempt to divide by zero"
ErrOwner == "Only owner can call this method"
ErrNotFound == "Contract not found"
ErrInit == "Already initialized"
ErrDefault == "SourceScan should be initialized before usage"

\* ------------------------------------------------------------------- state

VARIABLES
    state_exists,     \* env::state_exists(): the contract struct is stored
    owner_id,         \* SourceScan.owner_id
    keys,             \* SourceScan.contracts: iteration order of the keys
    contracts,        \* SourceScan.contracts: key -> VerifiedContract
    comments,         \* SourceScan.comments: the global comment log
    block_timestamp,  \* env::block_timestamp()
    last,             \* the last call and its outcome
    vote_calls,       \* per id: the add_vote calls committed since the
                      \* record was last created, in call order
    ever_voters,      \* per id: callers whose add_vote ever committed
    ncalls            \* number of committed mutating calls

vars == <<state_exists, owner_id, keys, contracts, comments, block_timestamp,
          last, vote_calls, ever_voters, ncalls>>

\* The contract's own stored state.
store == <<state_exists, owner_id, keys, contracts, comments>>

\* ------------------------------------------------------- collection helpers

\* Elements of a sequence.
Range(s) == { s[i] : i \in 1..Len(s) }

\* Position of k in the key vector (0 when absent).
IndexOf(s, k) == IF k \in Range(s) THEN CHOOSE i \in 1..Len(s) : s[i] = k ELSE 0

\* UnorderedMap::get.
MapGet(m, k) == IF k \in DOMAIN m THEN Some(m[k]) ELSE None

\* UnorderedMap::insert, key vector: a new key is pushed, an existing key
\* keeps its place.
KeysInsert(s, k) == IF k \in Range(s) THEN s ELSE Append(s, k)

\* UnorderedMap::insert, values.
MapInsert(m, k, v) == [x \in DOMAIN m \cup {k} |-> IF x = k THEN v ELSE m[x]]

\* Mutant of KeysRemove: the last key is dropped, whichever key is removed.
KeysRemovePop(s, k) ==
    IF k \notin Range(s) THEN s ELSE SubSeq(s, 1, Len(s) - 1)

\* UnorderedMap::remove, key vector: swap_remove (the last key takes the
\* place of the removed one).
KeysRemove(s, k) ==
    IF k \notin Range(s) THEN s
    ELSE LET i == IndexOf(s, k)
             n == Len(s)
         IN  [j \in 1..(n - 1) |-> IF j = i THEN s[n] ELSE s[j]]

\* Mutant of MapRemove: the value stays behind.
MapRemoveKeep(m, k) == m

\* UnorderedMap::remove, values.
MapRemove(m, k) == [x \in DOMAIN m \ {k} |-> m[x]]

\* Mutant of VoteEq: votes compared by their type.
VoteEqByType(a, b) == a.vote_type = b.vote_type

\* Mutant of VoteEq: votes compared field by field.
VoteEqDerived(a, b) == a = b

\* Vote equality: same author_id.
VoteEq(a, b) == a.author_id = b.author_id

\* Mutant of VotesTake: taking the stored vote empties the set.
VotesTakeAll(votes, v) ==
    IF \E e \in votes : VoteEq(e, v)
    THEN LET e == CHOOSE e \in votes : VoteEq(e, v)
         IN  [found |-> Some(e), rest |-> {}]
    ELSE [found |-> None, rest |-> votes]

\* HashSet<Vote>::take: the stored vote equal to v, if any, and the set
\* without it.
VotesTake(votes, v) ==
    IF \E e \in votes : VoteEq(e, v)
    THEN LET e == CHOOSE e \in votes : VoteEq(e, v)
         IN  [found |-> Some(e), rest |-> votes \ {e}]
    ELSE [found |-> None, rest |-> votes]

\* HashSet<Vote>::insert: a value equal to a stored one is not inserted.
VotesInsert(votes, v) ==
    IF \E e \in votes : VoteEq(e, v) THEN votes ELSE votes \cup {v}

\* --------------------------------------------------------------- observation

\* The record of a call: its name, caller, arguments, outcome and block
\* timestamp.
Call(op, caller, account_id, arg, result) ==
    [op |-> op, caller |-> caller, account_id |-> account_id, arg |-> arg,
     result |-> result, timestamp |-> block_timestamp]

\* Calls are explored while fewer than MaxCalls calls have committed.  A
\* panicking call is reverted: the state after it differs from the state
\* before it only in `last`, which no method reads, so every call that can
\* follow it is already explored from the state before it and is not
\* explored a second time.
Explored ==
    /\ ncalls < MaxCalls
    /\ last.result = "ok"

\* A call that panics: every state write is reverted; what is seen of it is
\* the method, the caller, the account identifier and the message.
Panic(op, caller, account_id, msg) ==
    /\ Explored
    /\ last' = Call(op, caller, account_id, "", msg)
    /\ UNCHANGED <<state_exists, owner_id, keys, contracts, comments,
                   block_timestamp, vote_calls, ever_voters, ncalls>>

\* A call that returns: it is committed and counted.
Commit(op, caller, account_id, arg) ==
    /\ Explored
    /\ ncalls' = ncalls + 1
    /\ last' = Call(op, caller, account_id, arg, "ok")

\* ------------------------------------------------------------------ actions

Init ==
    /\ state_exists = FALSE
    /\ owner_id = ""
    /\ keys = <<>>
    /\ contracts = <<>>
    /\ comments = <<>>
    /\ block_timestamp = 0
    /\ last = Call("deploy", "", "", "", "ok")
    /\ vote_calls = [id \in ContractIds |-> <<>>]
    /\ ever_voters = [id \in ContractIds |-> {}]
    /\ ncalls = 0

\* Mutant of new: the state is written without the state_exists check.
new_reinit(caller) ==
    /\ state_exists' = TRUE
    /\ owner_id' = caller
    /\ keys' = <<>>
    /\ contracts' = <<>>
    /\ comments' = <<>>
    /\ last' = Call("new", caller, "", "", "ok")
    /\ UNCHANGED <<block_timestamp, vote_calls, ever_voters, ncalls>>

\* #[init] new()
new(caller) ==
    IF state_exists
    THEN Panic("new", caller, "", ErrInit)
    ELSE /\ state_exists' = TRUE
         /\ owner_id' = caller
         /\ keys' = <<>>
         /\ contracts' = <<>>
         /\ comments' = <<>>
         /\ last' = Call("new", caller, "", "", "ok")
         /\ UNCHANGED <<block_timestamp, vote_calls, ever_voters, ncalls>>

\* Mutant of IsOwner: the gate lets every caller through.
IsOwnerAnyone(caller) == TRUE

\* The owner gate of set_owner, set_contract and purge_contract.
IsOwner(caller) == caller = owner_id

\* Mutant of set_owner: the caller, not the argument, becomes the owner.
set_owner_caller(caller, new_owner) ==
    IF ~state_exists
    THEN Panic("set_owner", caller, "", ErrDefault)
    ELSE IF ~IsOwner(caller)
    THEN Panic("set_owner", caller, "", ErrOwner)
    ELSE /\ Commit("set_owner", caller, "", new_owner)
         /\ owner_id' = caller
         /\ UNCHANGED <<state_exists, keys, contracts, comments,
                        block_timestamp, vote_calls, ever_voters>>

\* set_owner(owner_id)
set_owner(caller, new_owner) ==
    IF ~state_exists
    THEN Panic("set_owner", caller, "", ErrDefault)
    ELSE IF ~IsOwner(caller)
    THEN Panic("set_owner", caller, "", ErrOwner)
    ELSE /\ Commit("set_owner", caller, "", new_owner)
         /\ owner_id' = new_owner
         /\ UNCHANGED <<state_exists, keys, contracts, comments,
                        block_timestamp, vote_calls, ever_voters>>

\* get_owner()
get_owner == owner_id

\* Mutant of NewRecord: re-registration starts the record afresh.
NewRecordReset(existing, f) ==
    [cid |-> f.cid,
     code_hash |-> f.code_hash,
     lang |-> f.lang,
     entry_point |-> f.entry_point,
     builder_image |-> f.builder_image,
     votes |-> {},
     comments |-> <<>>,
     github |-> f.github]

\* The record set_contract stores: the descriptive fields of the call, the
\* votes and comment ids of the existing record (empty when there is none).
NewRecord(existing, f) ==
    [cid |-> f.cid,
     code_hash |-> f.code_hash,
     lang |-> f.lang,
     entry_point |-> f.entry_point,
     builder_image |-> f.builder_image,
     votes |-> IF existing.some THEN existing.value.votes ELSE {},
     comments |-> IF existing.some THEN existing.value.comments ELSE <<>>,
     github |-> IF f.github.some
                THEN Some([owner |-> f.github.value.owner,
                           repo |-> f.github.value.repo,
                           sha |-> f.github.value.sha])
                ELSE None]

\* set_contract(account_id, cid, code_hash, lang, entry_point,
\*              builder_image, github)
set_contract(caller, account_id, f) ==
    IF ~state_exists
    THEN Panic("set_contract", caller, account_id, ErrDefault)
    ELSE IF ~IsOwner(caller)
    THEN Panic("set_contract", caller, account_id, ErrOwner)
    ELSE LET existing_contract == MapGet(contracts, account_id)
         IN  /\ Commit("set_contract", caller, account_id, f)
             /\ keys' = KeysInsert(keys, account_id)
             /\ contracts' = MapInsert(contracts, account_id,
                                       NewRecord(existing_contract, f))
             /\ UNCHANGED <<state_exists, owner_id, comments,
                            block_timestamp, vote_calls, ever_voters>>

\* Mutant of purge_contract: purging an id that has no record panics.
purge_contract_strict(caller, account_id) ==
    IF ~state_exists
    THEN Panic("purge_contract", caller, account_id, ErrDefault)
    ELSE IF ~IsOwner(caller)
    THEN Panic("purge_contract", caller, account_id, ErrOwner)
    ELSE IF ~MapGet(contracts, account_id).some
    THEN Panic("purge_contract", caller, account_id, ErrNotFound)
    ELSE /\ Commit("purge_contract", caller, account_id, "")
         /\ keys' = KeysRemove(keys, account_id)
         /\ contracts' = MapRemove(contracts, account_id)
         /\ vote_calls' = [vote_calls EXCEPT ![account_id] = <<>>]
         /\ UNCHANGED <<state_exists, owner_id, comments, block_timestamp,
                        ever_voters>>

\* purge_contract(account_id)
purge_contract(caller, account_id) ==
    IF ~state_exists
    THEN Panic("purge_contract", caller, account_id, ErrDefault)
    ELSE IF ~IsOwner(caller)
    THEN Panic("purge_contract", caller, account_id, ErrOwner)
    ELSE /\ Commit("purge_contract", caller, account_id, "")
         /\ keys' = KeysRemove(keys, account_id)
         /\ contracts' = MapRemove(contracts, account_id)
         /\ vote_calls' = [vote_calls EXCEPT ![account_id] = <<>>]
         /\ UNCHANGED <<state_exists, owner_id, comments, block_timestamp,
                        ever_voters>>

\* get_contract(account_id)
get_contract(account_id) == MapGet(contracts, account_id)

\* Mutant of VotesAfter: the new vote is inserted without taking the
\* author's existing vote out first.
VotesAfterInsertOnly(votes, author_id, current_timestamp, vote_type) ==
    VotesInsert(votes, [author_id |-> author_id,
                        timestamp |-> current_timestamp,
                        vote_type |-> vote_type])

\* The vote set after add_vote: an existing vote of the author is taken
\* out, given the new type and timestamp and put back; otherwise the new
\* vote is inserted.
VotesAfter(votes, author_id, current_timestamp, vote_type) ==
    LET new_vote == [author_id |-> author_id,
                     timestamp |-> current_timestamp,
                     vote_type |-> vote_type]
        taken == VotesTake(votes, new_vote)
    IN  IF taken.found.some
        THEN VotesInsert(taken.rest,
                         [taken.found.value EXCEPT
                            !.vote_type = vote_type,
                            !.timestamp = current_timestamp])
        ELSE VotesInsert(taken.rest, new_vote)

\* add_vote(account_id, is_upvote)
add_vote(caller, account_id, is_upvote) ==
    IF ~state_exists
    THEN Panic("add_vote", caller, account_id, ErrDefault)
    ELSE IF ~MapGet(contracts, account_id).some
    THEN Panic("add_vote", caller, account_id, ErrNotFound)
    ELSE LET contract == MapGet(contracts, account_id).value
             vote_type == IF is_upvote THEN "Upvote" ELSE "Downvote"
             votes == VotesAfter(contract.votes, caller, block_timestamp,
                                 vote_type)
         IN  /\ Commit("add_vote", caller, account_id, is_upvote)
             /\ contracts' = MapInsert(contracts, account_id,
                                       [contract EXCEPT !.votes = votes])
             /\ keys' = KeysInsert(keys, account_id)
             /\ vote_calls' =
                    [vote_calls EXCEPT ![account_id] =
                        Append(@, [caller |-> caller,
                                   timestamp |-> block_timestamp,
                                   vote_type |-> vote_type])]
             /\ ever_voters' =
                    [ever_voters EXCEPT ![account_id] = @ \cup {caller}]
             /\ UNCHANGED <<state_exists, owner_id, comments,
                            block_timestamp>>

\* Mutant of NewComment: ids are counted from 1.
NewCommentOneBased(log, author_id, current_timestamp, content) ==
    [id |-> Len(log) + 1,
     author_id |-> author_id,
     timestamp |-> current_timestamp,
     content |-> content,
     votes |-> {}]

\* Mutant of NewComment: the timestamp is left at 0.
NewCommentNoTime(log, author_id, current_timestamp, content) ==
    [id |-> Len(log),
     author_id |-> author_id,
     timestamp |-> 0,
     content |-> content,
     votes |-> {}]

\* The comment add_comment appends: its id is the length of the log.
NewComment(log, author_id, current_timestamp, content) ==
    [id |-> Len(log),
     author_id |-> author_id,
     timestamp |-> current_timestamp,
     content |-> content,
     votes |-> {}]

\* Mutant of PushId: the id is put in front of the list.
PushIdFront(ids, id) == <<id>> \o ids

\* Mutant of PushId: the id is pushed twice.
PushIdTwice(ids, id) == Append(Append(ids, id), id)

\* contract.comments.push(new_comment.id)
PushId(ids, id) == Append(ids, id)

\* Mutant of add_comment: a comment on an id that has no record is
\* appended to the log, owned by no record.
add_comment_orphan(caller, account_id, content) ==
    IF ~state_exists
    THEN Panic("add_comment", caller, account_id, ErrDefault)
    ELSE LET existing == MapGet(contracts, account_id)
             new_comment == NewComment(comments, caller, block_timestamp,
                                       content)
         IN  /\ Commit("add_comment", caller, account_id, content)
             /\ comments' = Append(comments, new_comment)
             /\ contracts' =
                    IF existing.some
                    THEN MapInsert(contracts, account_id,
                                   [existing.value EXCEPT
                                      !.comments = PushId(@, new_comment.id)])
                    ELSE contracts
             /\ UNCHANGED <<state_exists, owner_id, keys, block_timestamp,
                            vote_calls, ever_voters>>

\* add_comment(account_id, content)
add_comment(caller, account_id, content) ==
    IF ~state_exists
    THEN Panic("add_comment", caller, account_id, ErrDefault)
    ELSE IF ~MapGet(contracts, account_id).some
    THEN Panic("add_comment", caller, account_id, ErrNotFound)
    ELSE LET contract == MapGet(contracts, account_id).value
             new_comment == NewComment(comments, caller, block_timestamp,
                                       content)
         IN  /\ Commit("add_comment", caller, account_id, content)
             /\ comments' = Append(comments, new_comment)
             /\ contracts' =
                    MapInsert(contracts, account_id,
                              [contract EXCEPT
                                 !.comments = PushId(@, new_comment.id)])
             /\ keys' = KeysInsert(keys, account_id)
             /\ UNCHANGED <<state_exists, owner_id, block_timestamp, vote_calls,
                            ever_voters>>

\* Vector<Comment>::get: the log is indexed from 0.
CommentsGet(log, comment_id) ==
    IF comment_id < Len(log) THEN Some(log[comment_id + 1]) ELSE None

\* get_comments(account_id): the comments of the record, or a panic.
get_comments(account_id) ==
    IF ~MapGet(contracts, account_id).some
    THEN [result |-> ErrNotFound, value |-> <<>>]
    ELSE LET ids == MapGet(contracts, account_id).value.comments
         IN  IF \E i \in 1..Len(ids) : ~CommentsGet(comments, ids[i]).some
             THEN [result |-> "unwrap on None", value |-> <<>>]
             ELSE [result |-> "ok",
                   value |-> [i \in 1..Len(ids) |->
                                CommentsGet(comments, ids[i]).value]]

\* ------------------------------------------------------------------- pager

\* A value a method returns.
Returned(v) == [panic |-> "", value |-> v]

\* A method that panics with msg.
Aborted(msg) == [panic |-> msg, value |-> 0]

\* u64 addition: with overflow checks the build panics on overflow,
\* without them the sum wraps.
U64Add(a, b, checked) ==
    IF a + b >= U64Modulus
    THEN IF checked THEN Aborted(ErrAdd) ELSE Returned((a + b) % U64Modulus)
    ELSE Returned(a + b)

\* u64 subtraction: with overflow checks the build panics below zero,
\* without them the difference wraps.
U64Sub(a, b, checked) ==
    IF a < b
    THEN IF checked THEN Aborted(ErrSub)
         ELSE Returned((a - b + U64Modulus) % U64Modulus)
    ELSE Returned(a - b)

\* u64 division: division by zero panics in every build.
U64Div(a, b) == IF b = 0 THEN Aborted(ErrDiv) ELSE Returned(a \div b)

\* Mutant of get_pages: the plain quotient.
get_pages_floor(len, limit, checked) == U64Div(len, limit)

\* get_pages(len, limit) == (len + limit - 1) / limit, evaluated left to
\* right in u64 by a build with or without overflow checks.
get_pages(len, limit, checked) ==
    LET sum == U64Add(len, limit, checked)
    IN  IF sum.panic # "" THEN sum
        ELSE LET dec == U64Sub(sum.value, 1, checked)
             IN  IF dec.panic # "" THEN dec
                 ELSE U64Div(dec.value, limit)

\* ----------------------------------------------------------------- strings

\* The characters of a string (String::as_str, AccountId::as_str).
as_str(s) ==
    CASE
         s = "account1.testnet" -> <<"a", "c", "c", "o", "u", "n", "t", "1", ".", "t", "e", "s", "t", "n", "e", "t">>
      [] s = "account2.testnet" -> <<"a", "c", "c", "o", "u", "n", "t", "2", ".", "t", "e", "s", "t", "n", "e", "t">>
      [] s = "bob.near" -> <<"b", "o", "b", ".", "n", "e", "a", "r">>
      [] s = ".testnet" -> <<".", "t", "e", "s", "t", "n", "e", "t">>
      [] s = ".near" -> <<".", "n", "e", "a", "r">>
      [] s = "account1" -> <<"a", "c", "c", "o", "u", "n", "t", "1">>
      [] s = "ACCOUNT" -> <<"A", "C", "C", "O", "U", "N", "T">>
      [] s = "" -> <<>>
      [] s = "near" -> <<"n", "e", "a", "r">>
      [] s = "b" -> <<"b">>

UpperCase == <<"A", "B", "C", "D", "E", "F", "G", "H", "I", "J", "K", "L", "M", "N", "O", "P", "Q", "R", "S", "T", "U", "V", "W", "X", "Y", "Z">>
LowerCase == <<"a", "b", "c", "d", "e", "f", "g", "h", "i", "j", "k", "l", "m", "n", "o", "p", "q", "r", "s", "t", "u", "v", "w", "x", "y", "z">>

\* char::to_lowercase
CharToLowercase(c) ==
    IF \E i \in 1..Len(UpperCase) : UpperCase[i] = c
    THEN LowerCase[CHOOSE i \in 1..Len(UpperCase) : UpperCase[i] = c]
    ELSE c

\* str::to_lowercase
to_lowercase(s) == [i \in 1..Len(s) |-> CharToLowercase(s[i])]

\* The pattern pat occurs in s at position i.
MatchAt(s, i, pat) ==
    /\ i + Len(pat) - 1 <= Len(s)
    /\ \A j \in 1..Len(pat) : s[i + j - 1] = pat[j]

\* str::replace from position i on: the non-overlapping occurrences of a
\* non-empty from, found left to right, are replaced by to.
RECURSIVE ReplaceFrom(_, _, _, _)
ReplaceFrom(s, i, from, to) ==
    IF i > Len(s) THEN <<>>
    ELSE IF MatchAt(s, i, from)
    THEN to \o ReplaceFrom(s, i + Len(from), from, to)
    ELSE <<s[i]>> \o ReplaceFrom(s, i + 1, from, to)

\* str::replace
replace(s, from, to) == ReplaceFrom(s, 1, from, to)

\* str::contains
contains(s, pat) == \E i \in 1..(Len(s) + 1) : MatchAt(s, i, pat)

\* ----------------------------------------------------------------- queries

\* Iterator::skip
skip(s, n) == IF n >= Len(s) THEN <<>> ELSE SubSeq(s, n + 1, Len(s))

\* Iterator::take
take(s, n) == IF n >= Len(s) THEN s ELSE SubSeq(s, 1, n)

\* UnorderedMap::iter: the entries in the order of the key vector.
iter == [i \in 1..Len(keys) |-> <<keys[i], contracts[keys[i]]>>]

\* The filter of search: the key, lowercased, occurs in the account id,
\* lowercased and with ".testnet" and ".near" replaced by "".
SearchFilter(k, key) ==
    contains(replace(replace(to_lowercase(as_str(k)), as_str(".testnet"), <<>>),
                     as_str(".near"), <<>>),
             to_lowercase(as_str(key)))

\* Mutant of search: the pages are counted over the whole map.
search_all_pages(key, from_index, limit, checked) ==
    LET result == SelectSeq(iter, LAMBDA e : SearchFilter(e[1], key))
        pages == get_pages(Len(keys), limit, checked)
    IN  IF pages.panic # "" THEN pages
        ELSE Returned([page |-> take(skip(result, from_index), limit),
                       pages |-> pages.value])

\* search(key, from_index, limit)
search(key, from_index, limit, checked) ==
    LET result == SelectSeq(iter, LAMBDA e : SearchFilter(e[1], key))
        pages == get_pages(Len(result), limit, checked)
    IN  IF pages.panic # "" THEN pages
        ELSE Returned([page |-> take(skip(result, from_index), limit),
                       pages |-> pages.value])

\* get_contracts(from_index, limit)
get_contracts(from_index, limit, checked) ==
    LET filtered == take(skip(iter, from_index), limit)
        pages == get_pages(Len(keys), limit, checked)
    IN  IF pages.panic # "" THEN pages
        ELSE Returned([page |-> filtered, pages |-> pages.value])

\* A view call: it writes nothing; what it returns, or its panic, is
\* observed.
View(op, arg, out) ==
    /\ Explored
    /\ last' = Call(op, "", "", [in |-> arg, out |-> out],
                     IF out.panic = "" THEN "returned" ELSE out.panic)
    /\ UNCHANGED <<state_exists, owner_id, keys, contracts, comments,
                   block_timestamp, vote_calls, ever_voters, ncalls>>

\* A call of search, by a build with or without overflow checks.
CallSearch(key, from_index, limit) ==
    IF ~state_exists
    THEN Panic("search", "", "", ErrDefault)
    ELSE \E checked \in BOOLEAN :
           View("search",
                [key |-> key, from_index |-> from_index, limit |-> limit],
                search(key, from_index, limit, checked))

\* A call of get_contracts, by a build with or without overflow checks.
CallGetContracts(from_index, limit) ==
    IF ~state_exists
    THEN Panic("get_contracts", "", "", ErrDefault)
    ELSE \E checked \in BOOLEAN :
           View("get_contracts",
                [from_index |-> from_index, limit |-> limit],
                get_contracts(from_index, limit, checked))

\* The host produces a new block.
AdvanceBlock ==
    /\ Explored
    /\ \E t \in BlockTimes : t > block_timestamp /\ block_timestamp' = t
    /\ UNCHANGED <<state_exists, owner_id, keys, contracts, comments, last,
                   vote_calls, ever_voters, ncalls>>

\* One call of a public method, or a new block.
Next ==
    \/ \E caller \in Deployers : new(caller)
    \/ \E caller \in Accounts, new_owner \in Accounts :
          set_owner(caller, new_owner)
    \/ \E caller \in Accounts, id \in ContractIds, f \in FieldInputs :
          set_contract(caller, id, f)
    \/ \E caller \in Accounts, id \in ContractIds : purge_contract(caller, id)
    \/ \E caller \in Accounts, id \in ContractIds, up \in BOOLEAN :
          add_vote(caller, id, up)
    \/ \E caller \in Accounts, id \in ContractIds, c \in Contents :
          add_comment(caller, id, c)
    \/ AdvanceBlock

Spec == Init /\ [][Next]_vars

\* ------------------------------------------------- the store and its queries

InitQuery ==
    /\ state_exists = FALSE
    /\ owner_id = ""
    /\ keys = <<>>
    /\ contracts = <<>>
    /\ comments = <<>>
    /\ block_timestamp = 0
    /\ last = Call("deploy", "", "", "", "ok")
    /\ vote_calls = [id \in QueryIds |-> <<>>]
    /\ ever_voters = [id \in QueryIds |-> {}]
    /\ ncalls = 0

NextQuery ==
    \/ \E caller \in Deployers : new(caller)
    \/ \E caller \in Deployers, id \in QueryIds, f \in FieldInputs :
         set_contract(caller, id, f)
    \/ \E caller \in Deployers, id \in QueryIds : purge_contract(caller, id)
    \/ \E key \in SearchKeys, from_index \in Usizes, limit \in Usizes :
         CallSearch(key, from_index, limit)
    \/ \E from_index \in Usizes, limit \in Usizes :
         CallGetContracts(from_index, limit)

SpecQuery == InitQuery /\ [][NextQuery]_vars

\* --------------------------------------------- get_pages as a pure function

\* The u64 values.
U64 == 0..(U64Modulus - 1)

\* The arguments get_pages is applied to: any two u64 values.
InitPages ==
    /\ state_exists = TRUE
    /\ owner_id \in Deployers
    /\ keys = <<>>
    /\ contracts = <<>>
    /\ comments = <<>>
    /\ block_timestamp = 0
    /\ \E len \in U64, limit \in U64 :
          last = Call("input", "", "", [len |-> len, limit |-> limit], "ok")
    /\ vote_calls = [id \in ContractIds |-> <<>>]
    /\ ever_voters = [id \in ContractIds |-> {}]
    /\ ncalls = 0

\* get_pages applied to the arguments, by either build.
ApplyGetPages ==
    /\ last.op = "input"
    /\ \E checked \in BOOLEAN :
          LET out == get_pages(last.arg.len, last.arg.limit, checked)
          IN  last' = Call("get_pages", "", "",
                           [len |-> last.arg.len, limit |-> last.arg.limit,
                            out |-> out],
                           IF out.panic = "" THEN "returned" ELSE out.panic)
    /\ UNCHANGED <<state_exists, owner_id, keys, contracts, comments,
                   block_timestamp, vote_calls, ever_voters, ncalls>>

NextPages == ApplyGetPages

SpecPages == InitPages /\ [][NextPages]_vars

\* ------------------------------------------------------- property helpers

\* The step is a call of method op that returned.
Committed(op) ==
    /\ ncalls' = ncalls + 1
    /\ last'.op = op
    /\ last'.result = "ok"

\* The step is a call of method op that panicked.
Panicked(op) ==
    /\ last' # last
    /\ last'.op = op
    /\ last'.result # "ok"

\* The step is a call of method op, whatever its outcome.
Called(op) == Committed(op) \/ Panicked(op)

\* The authors of a vote set.
Authors(votes) == { v.author_id : v \in votes }

\* The callers of a sequence of add_vote calls.
Callers(calls) == { calls[i].caller : i \in 1..Len(calls) }

\* The methods behind the owner gate.
OwnerGated == {"set_owner", "set_contract", "purge_contract"}

\* The methods that write state, initialisation apart.
Mutating == OwnerGated \cup {"add_vote", "add_comment"}

\* The step is a call of any method.
AnyCall == ncalls' # ncalls \/ last' # last

\* The ids of the comment log are 0, 1, ..., in log order.
DenseIds(log) == \A i \in 1..Len(log) : log[i].id = i - 1

\* The comment ids no present record lists.
Orphans ==
    { i \in 0..(Len(comments) - 1) :
        \A id \in DOMAIN contracts :
            \A j \in 1..Len(contracts[id].comments) :
                contracts[id].comments[j] # i }

\* ------------------------------------------------------------------ claims

\* C1: set_contract by the owner on an id that is already present replaces
\* every descriptive field by the call's and leaves the record's votes and
\* comment-id list, the set of stored ids and the record count as they were.
C1_SetContractKeepsHistory ==
    [][ (Committed("set_contract") /\ last'.account_id \in DOMAIN contracts)
        => LET id == last'.account_id
               f == last'.arg
               before == contracts[id]
               after == contracts'[id]
           IN  /\ last'.caller = owner_id
               /\ after.cid = f.cid
               /\ after.code_hash = f.code_hash
               /\ after.lang = f.lang
               /\ after.entry_point = f.entry_point
               /\ after.builder_image = f.builder_image
               /\ after.github = f.github
               /\ after.votes = before.votes
               /\ after.comments = before.comments
               /\ DOMAIN contracts' = DOMAIN contracts
               /\ keys' = keys
               /\ \A other \in DOMAIN contracts \ {id} :
                      contracts'[other] = contracts[other] ]_vars

\* C1 witness: a record with a vote and a comment has just been overwritten
\* by set_contract with fields that carry a github reference.
C1_Witness ==
    /\ last.op = "set_contract"
    /\ last.result = "ok"
    /\ last.account_id \in DOMAIN contracts
    /\ contracts[last.account_id].votes # {}
    /\ contracts[last.account_id].comments # <<>>
    /\ contracts[last.account_id].github.some

\* C2: after N >= 1 add_vote calls on a record, all by one caller, the
\* record holds exactly one vote: that caller's, with the type and the
\* timestamp of the last of the calls.
C2_RevoteReplaces ==
    \A id \in DOMAIN contracts :
        LET calls == vote_calls[id]
            n == Len(calls)
        IN  (n >= 1 /\ \A i \in 1..n : calls[i].caller = calls[1].caller)
            => /\ Cardinality(contracts[id].votes) = 1
               /\ contracts[id].votes =
                      { [author_id |-> calls[1].caller,
                         timestamp |-> calls[n].timestamp,
                         vote_type |-> calls[n].vote_type] }

\* C2 witness: one caller has voted twice on a record, in different blocks
\* and with different types.
C2_Witness ==
    \E id \in DOMAIN contracts :
        /\ Len(vote_calls[id]) = 2
        /\ vote_calls[id][1].caller = vote_calls[id][2].caller
        /\ vote_calls[id][1].vote_type # vote_calls[id][2].vote_type
        /\ vote_calls[id][1].timestamp # vote_calls[id][2].timestamp
        /\ last.op = "add_vote"

\* C3: after N add_vote calls on a record by N pairwise distinct callers
\* the record holds exactly N votes, one per caller.
C3_DistinctAuthorsAccumulate ==
    \A id \in DOMAIN contracts :
        LET calls == vote_calls[id]
            n == Len(calls)
        IN  (\A i, j \in 1..n : calls[i].caller = calls[j].caller => i = j)
            => /\ Cardinality(contracts[id].votes) = n
               /\ Authors(contracts[id].votes) = Callers(calls)
               /\ \A i \in 1..n :
                      [author_id |-> calls[i].caller,
                       timestamp |-> calls[i].timestamp,
                       vote_type |-> calls[i].vote_type]
                          \in contracts[id].votes

\* C3 witness: three distinct callers have voted on one record, all with
\* the same type.
C3_Witness ==
    \E id \in DOMAIN contracts :
        /\ Len(vote_calls[id]) = 3
        /\ Cardinality(Callers(vote_calls[id])) = 3
        /\ \A v \in contracts[id].votes : v.vote_type = "Upvote"

\* C4: a record never holds two votes of one author, and never more votes
\* than there are callers who have ever voted on its account identifier.
C4_OneVotePerAuthor ==
    \A id \in DOMAIN contracts :
        /\ \A v, w \in contracts[id].votes :
               v.author_id = w.author_id => v = w
        /\ Cardinality(contracts[id].votes) <= Cardinality(ever_voters[id])
        /\ Authors(contracts[id].votes) \subseteq ever_voters[id]

\* C4 witness: two authors have voted on a record and one of them has
\* voted again with the other type.
C4_Witness ==
    \E id \in DOMAIN contracts :
        /\ Len(vote_calls[id]) = 3
        /\ Cardinality(contracts[id].votes) = 2
        /\ vote_calls[id][1].caller = vote_calls[id][3].caller
        /\ vote_calls[id][1].vote_type # vote_calls[id][3].vote_type

\* C5: the comment at index i of the log has id i, so the ids of a log of
\* length K are exactly 0..K-1; no step shortens the log or changes an
\* entry of it, a purge included.
C5_CommentIdsDense ==
    [][ /\ DenseIds(comments)
        /\ DenseIds(comments')
        /\ Len(comments') >= Len(comments)
        /\ \A i \in 1..Len(comments) : comments'[i] = comments[i]
        /\ Committed("add_comment")
              => /\ Len(comments') = Len(comments) + 1
                 /\ comments'[Len(comments')].id = Len(comments) ]_vars

\* C5 witness: a record that owned two comments has just been purged; the
\* log still holds both, under the ids 0 and 1.
C5_Witness ==
    /\ last.op = "purge_contract"
    /\ last.result = "ok"
    /\ Len(comments) = 2
    /\ Orphans = {0, 1}
    /\ comments[1].id = 0
    /\ comments[2].id = 1

\* C6: the comment-id list of every record is strictly increasing and
\* lists only ids of the log, so get_comments returns, without failing,
\* the record's comments in the order they were added.
C6_CommentIdsValid ==
    \A id \in DOMAIN contracts :
        LET ids == contracts[id].comments
            got == get_comments(id)
        IN  /\ \A i, j \in 1..Len(ids) : i < j => ids[i] < ids[j]
            /\ \A i \in 1..Len(ids) : ids[i] >= 0 /\ ids[i] < Len(comments)
            /\ got.result = "ok"
            /\ Len(got.value) = Len(ids)
            /\ \A i \in 1..Len(ids) : got.value[i].id = ids[i]

\* C6 witness: two comments have been added to a record, and get_comments
\* returns them in the order they were added.
C6_Witness ==
    \E id \in DOMAIN contracts :
        /\ contracts[id].comments = <<0, 1>>
        /\ get_comments(id).result = "ok"
        /\ get_comments(id).value[1].content = "Second comment"
        /\ get_comments(id).value[2].content = "First comment"
        /\ get_comments(id).value[1].timestamp = 0
        /\ get_comments(id).value[2].timestamp = 1

\* C7 as stated: every call of set_owner, set_contract, purge_contract,
\* add_vote or add_comment by a caller who is not the owner fails with
\* Unauthorized and leaves records, comment log and owner unchanged.
C7_Original ==
    [][ \A op \in Mutating :
          (state_exists /\ Called(op) /\ last'.caller # owner_id)
          => /\ last'.result = ErrOwner
             /\ UNCHANGED <<owner_id, keys, contracts, comments>> ]_vars

\* C7 as amended: every call of set_owner, set_contract or purge_contract
\* by a caller who is not the owner fails with Unauthorized and leaves
\* records, comment log and owner unchanged; add_vote and add_comment are
\* not behind the owner gate: on an existing record they return for every
\* caller.
C7_OwnerGate ==
    [][ state_exists =>
          /\ \A op \in OwnerGated :
                (Called(op) /\ last'.caller # owner_id)
                => /\ last'.result = ErrOwner
                   /\ UNCHANGED <<owner_id, keys, contracts, comments>>
          /\ \A op \in {"add_vote", "add_comment"} :
                (Called(op) /\ last'.account_id \in DOMAIN contracts)
                => last'.result = "ok" ]_vars

\* C7 witness: a caller who is not the owner has called set_contract on an
\* existing record that has votes, and the call has panicked.
C7_Witness ==
    /\ state_exists
    /\ last.op = "set_contract"
    /\ last.caller # owner_id
    /\ last.result = ErrOwner
    /\ last.account_id \in DOMAIN contracts
    /\ contracts[last.account_id].votes # {}

\* C8: there is one owner; set_owner by the owner makes its argument the
\* owner, which get_owner returns; a call of set_owner, set_contract or
\* purge_contract returns exactly when its caller is the owner at the time
\* of the call and otherwise fails with the state unchanged; the owner
\* changes by no other step than a set_owner that returns.
C8_OwnershipTransfer ==
    [][ state_exists =>
          /\ owner_id \in Accounts
          /\ Committed("set_owner")
                => /\ last'.caller = owner_id
                   /\ owner_id' = last'.arg
                   /\ get_owner' = last'.arg
          /\ \A op \in OwnerGated :
                Called(op)
                => /\ (last'.result = "ok") <=> (last'.caller = owner_id)
                   /\ last'.result # "ok"
                         => /\ last'.result = ErrOwner
                            /\ UNCHANGED store
          /\ owner_id' # owner_id => Committed("set_owner") ]_vars

\* C8 witness: the deployer has handed the ownership over and then called
\* purge_contract, which has panicked.
C8_Witness ==
    /\ state_exists
    /\ last.op = "purge_contract"
    /\ last.caller \in Deployers
    /\ owner_id \notin Deployers
    /\ last.result = ErrOwner

\* C9: purge_contract by the owner on a present id removes that record and
\* nothing else: the id is absent afterwards, every other record is as it
\* was, the record count is one less, and the comment log is as it was.
C9_PurgeRemovesOneRecord ==
    [][ (Committed("purge_contract") /\ last'.account_id \in DOMAIN contracts)
        => LET id == last'.account_id
           IN  /\ last'.caller = owner_id
               /\ ~MapGet(contracts', id).some
               /\ DOMAIN contracts' = DOMAIN contracts \ {id}
               /\ \A other \in DOMAIN contracts \ {id} :
                      contracts'[other] = contracts[other]
               /\ Range(keys) = DOMAIN contracts
               /\ Range(keys') = DOMAIN contracts'
               /\ Len(keys') = Len(keys) - 1
               /\ comments' = comments
               /\ owner_id' = owner_id ]_vars

\* C9 witness: a record that owned a comment has just been purged, another
\* record is still stored, and the comment is still in the log.
C9_Witness ==
    /\ last.op = "purge_contract"
    /\ last.result = "ok"
    /\ last.account_id \notin DOMAIN contracts
    /\ keys # <<>>
    /\ Orphans # {}
    /\ ncalls = 4

\* C10: purge_contract by the owner on an id that has no record returns
\* and leaves the record store, the comment log and the owner unchanged.
C10_PurgeAbsentIsSilent ==
    [][ ( /\ state_exists
          /\ Called("purge_contract")
          /\ last'.caller = owner_id
          /\ last'.account_id \notin DOMAIN contracts )
        => /\ last'.result = "ok"
           /\ UNCHANGED <<owner_id, keys, contracts, comments>> ]_vars

\* C10 witness: the owner has purged an id that has no record while
\* another record, with a comment, is stored.
C10_Witness ==
    /\ last.op = "purge_contract"
    /\ last.result = "ok"
    /\ ncalls = 3
    /\ Len(keys) = 1
    /\ Len(comments) = 1
    /\ Orphans = {}

\* The least n with n * limit >= total: the ceiling of total / limit.
Ceil(total, limit) ==
    CHOOSE n \in 0..total : n * limit >= total /\ \A m \in 0..(n - 1) : m * limit < total

\* C11: get_pages(total, limit) returns the ceiling of total / limit for
\* every u64 total and every u64 limit > 0.
C11_PageCountLaw ==
    (last.op = "get_pages" /\ last.arg.limit > 0)
    => /\ last.result = "returned"
       /\ last.arg.out.value = Ceil(last.arg.len, last.arg.limit)

\* A view call that went through the initialized contract.
Viewed(op) == state_exists /\ last.op = op

\* C12: search and get_contracts with limit = 0 are rejected by a
\* validation, not by the arithmetic of the page count.
C12_ZeroLimitValidated ==
    ((Viewed("search") \/ Viewed("get_contracts")) /\ last.arg.in.limit = 0)
    => last.result \notin {"returned", ErrAdd, ErrSub, ErrDiv}

\* The account id as the search compares it: lowercased, with every
\* ".testnet" and then every ".near" taken out.
Normalised(id) ==
    replace(replace(to_lowercase(as_str(id)), as_str(".testnet"), <<>>),
            as_str(".near"), <<>>)

\* The positions, in iteration order, of the records a key matches.
Matching(key) ==
    {i \in 1..Len(keys) : contains(Normalised(keys[i]), to_lowercase(as_str(key)))}

\* The p-th position of M, counted from 1 in increasing order.
Nth(M, p) == CHOOSE i \in M : Cardinality({j \in M : j <= i}) = p

\* The page of the positions M: from_index of them skipped, at most limit
\* taken, each as the pair of the identifier and its record.
PageOf(M, from_index, limit) ==
    LET rest == IF Cardinality(M) > from_index
                THEN Cardinality(M) - from_index ELSE 0
        size == IF limit < rest THEN limit ELSE rest
    IN  [p \in 1..size |->
           <<keys[Nth(M, from_index + p)], contracts[keys[Nth(M, from_index + p)]]>>]

\* C13: search(key, from_index, limit) with limit > 0 returns the matching
\* records, from_index skipped and limit taken, and the ceiling of the
\* number of matching records over limit; "account1" matches exactly one
\* of account1.testnet and account2.testnet.
C13_SearchPage ==
    (Viewed("search") /\ last.arg.in.limit > 0)
    => LET in == last.arg.in
           M == Matching(in.key)
       IN  /\ last.result = "returned"
           /\ last.arg.out.value.page = PageOf(M, in.from_index, in.limit)
           /\ last.arg.out.value.pages = Ceil(Cardinality(M), in.limit)
           /\ (/\ in.key = "account1"
               /\ Range(keys) = {"account1.testnet", "account2.testnet"}
               /\ in.from_index = 0)
              => /\ Len(last.arg.out.value.page) = 1
                 /\ last.arg.out.value.page[1][1] = "account1.testnet"
                 /\ last.arg.out.value.pages = 1

\* A search for "account1" over account2.testnet and account1.testnet
\* returned the one match and one page.
C13_Witness ==
    /\ Viewed("search")
    /\ last.result = "returned"
    /\ last.arg.in = [key |-> "account1", from_index |-> 0, limit |-> 2]
    /\ keys = <<"account2.testnet", "account1.testnet">>
    /\ Len(last.arg.out.value.page) = 1
    /\ last.arg.out.value.pages = 1

\* C14: get_contracts(from_index, limit) with limit > 0 returns the
\* records in iteration order, from_index skipped and limit taken, so
\* min(limit, max(0, count - from_index)) of them, and the ceiling of
\* count over limit whatever from_index is.
C14_ListPage ==
    (Viewed("get_contracts") /\ last.arg.in.limit > 0)
    => LET in == last.arg.in
           count == Len(keys)
           rest == IF count > in.from_index THEN count - in.from_index ELSE 0
       IN  /\ last.result = "returned"
           /\ last.arg.out.value.page = PageOf(1..count, in.from_index, in.limit)
           /\ Len(last.arg.out.value.page)
                = IF in.limit < rest THEN in.limit ELSE rest
           /\ last.arg.out.value.pages = Ceil(count, in.limit)

\* Three records listed from index 1 by pages of 2: two records, two pages.
C14_Witness ==
    /\ Viewed("get_contracts")
    /\ last.result = "returned"
    /\ last.arg.in = [from_index |-> 1, limit |-> 2]
    /\ Len(keys) = 3
    /\ Len(last.arg.out.value.page) = 2
    /\ last.arg.out.value.pages = 2

\* C15: add_vote and add_comment on an id that has no record panic with
\* "not found" and leave the records, the votes and the comment log as
\* they were.
C15_AbsentTargetAborts ==
    [][\A op \in {"add_vote", "add_comment"} :
         (state_exists /\ Called(op) /\ last'.account_id \notin DOMAIN contracts)
         => /\ last'.result = ErrNotFound
            /\ UNCHANGED <<store, vote_calls, ever_voters>>]_vars

\* A comment on a purged id panicked; the log still has the one comment
\* made before the purge.
C15_Witness ==
    /\ state_exists
    /\ last.op = "add_comment"
    /\ last.result = ErrNotFound
    /\ last.account_id \notin DOMAIN contracts
    /\ Len(comments) = 1

\* C16: for an id that has no record, get_contract returns None and
\* get_comments returns an empty list.
C16_ReadAbsentIsEmpty ==
    state_exists
    => \A id \in ContractIds \ DOMAIN contracts :
          /\ ~get_contract(id).some
          /\ get_comments(id).result = "ok"
          /\ get_comments(id).value = <<>>

\* C17: new() on a contract without state returns, with the caller as
\* owner and an empty map and log; new() on a contract with state panics
\* with "Already initialized" and changes nothing.
C17_InitOnce ==
    [][(last' # last /\ last'.op = "new")
       => IF state_exists
          THEN /\ last'.result = ErrInit
               /\ UNCHANGED <<store, vote_calls, ever_voters>>
          ELSE /\ last'.result = "ok"
               /\ state_exists'
               /\ owner_id' = last'.caller
               /\ keys' = <<>>
               /\ contracts' = <<>>
               /\ comments' = <<>>]_vars

\* new() panicked on a contract that holds a record.
C17_Witness ==
    /\ last.op = "new"
    /\ last.result = ErrInit
    /\ state_exists
    /\ owner_id = "alice"
    /\ keys # <<>>

\* C18: the log only grows, by add_comment; the appended comment carries
\* the caller, the block timestamp and the text of the call, and no step
\* changes a comment that is in the log.
C18_CommentsImmutable ==
    [][/\ Len(comments') >= Len(comments)
       /\ \A i \in 1..Len(comments) : comments'[i] = comments[i]
       /\ Len(comments') # Len(comments) => Committed("add_comment")
       /\ Committed("add_comment")
          => /\ Len(comments') = Len(comments) + 1
             /\ comments'[Len(comments')].author_id = last'.caller
             /\ comments'[Len(comments')].timestamp = block_timestamp
             /\ comments'[Len(comments')].content = last'.arg]_vars

\* Bob's comment of time 1 is still as he made it after the record was
\* purged.
C18_Witness ==
    /\ last.op = "purge_contract"
    /\ last.result = "ok"
    /\ Len(comments) = 1
    /\ comments[1] = [id |-> 0, author_id |-> "bob", timestamp |-> 1,
                      content |-> "First comment", votes |-> {}]
    /\ contracts = <<>>

\* C19: set_contract on an id the map does not hold creates a record with
\* no votes and no comment ids, whatever the id had before a purge; the
\* log keeps the old comments and get_comments(id) returns none of them.
C19_FreshRecord ==
    [][\A id \in ContractIds :
         (Committed("set_contract") /\ last'.account_id = id
            /\ id \notin Range(keys))
         => /\ id \in DOMAIN contracts'
            /\ contracts'[id].votes = {}
            /\ contracts'[id].comments = <<>>
            /\ comments' = comments
            /\ get_comments(id)' = [result |-> "ok", value |-> <<>>]]_vars

\* A record that had a vote was purged and registered again: it has no
\* votes.
C19_Witness ==
    /\ last.op = "set_contract"
    /\ last.result = "ok"
    /\ ever_voters[last.account_id] # {}
    /\ contracts[last.account_id].votes = {}
    /\ contracts[last.account_id].comments = <<>>

\* The places (record, position) that list the comment id i.
Places(i) ==
    { p \in (DOMAIN contracts) \X (1..Len(comments)) :
        /\ p[2] <= Len(contracts[p[1]].comments)
        /\ contracts[p[1]].comments[p[2]] = i }

RECURSIVE SumLen(_)
\* The number of comment ids the records of S list.
SumLen(S) ==
    IF S = {} THEN 0
    ELSE LET id == CHOOSE x \in S : TRUE
         IN  Len(contracts[id].comments) + SumLen(S \ {id})

\* C20: every comment id is listed at most once by at most one record; the
\* ids listed are as many as the log is long less the ids no record lists,
\* and an id stops being listed only when the record listing it is purged.
C20_CommentOwnership ==
    [][/\ \A i \in 0..(Len(comments') - 1) : Cardinality(Places(i)') <= 1
       /\ \A id \in DOMAIN contracts' :
            Len(contracts'[id].comments) <= Len(comments')
       /\ SumLen(DOMAIN contracts)' = Len(comments') - Cardinality(Orphans')
       /\ Orphans \subseteq Orphans'
       /\ Orphans' # Orphans
          <=> /\ Committed("purge_contract")
              /\ last'.account_id \in DOMAIN contracts
              /\ contracts[last'.account_id].comments # <<>>]_vars

\* A record with a comment was purged and registered again: the log has
\* one comment and no record lists it.
C20_Witness ==
    /\ last.op = "set_contract"
    /\ last.result = "ok"
    /\ Len(comments) = 1
    /\ Orphans = {0}
    /\ SumLen(DOMAIN contracts) = 0

\* The votes of a set that are not by author.
VotesOfOthers(votes, author) == {v \in votes : v.author_id # author}

\* C21: an add_vote that returns changes only the caller's own vote on the
\* record voted on: the votes of the other authors, the record's fields and
\* comment ids, the other records, the stored ids, the comment log and the
\* owner are as they were.
C21_AddVoteFrame ==
    [][Committed("add_vote")
       => LET id == last'.account_id
              author == last'.caller
          IN  /\ id \in DOMAIN contracts
              /\ DOMAIN contracts' = DOMAIN contracts
              /\ keys' = keys
              /\ \A other \in DOMAIN contracts \ {id} :
                    contracts'[other] = contracts[other]
              /\ [contracts'[id] EXCEPT !.votes = {}]
                   = [contracts[id] EXCEPT !.votes = {}]
              /\ VotesOfOthers(contracts'[id].votes, author)
                   = VotesOfOthers(contracts[id].votes, author)
              /\ Cardinality(contracts'[id].votes
                               \ VotesOfOthers(contracts'[id].votes, author)) = 1
              /\ comments' = comments
              /\ owner_id' = owner_id
              /\ state_exists' = state_exists]_vars

\* Bob changed his vote on a record alice had voted on: her vote is as
\* she cast it.
C21_Witness ==
    /\ last.op = "add_vote"
    /\ last.result = "ok"
    /\ last.caller = "bob"
    /\ Len(vote_calls[last.account_id]) = 3
    /\ vote_calls[last.account_id][1].caller = "alice"
    /\ vote_calls[last.account_id][2].caller = "bob"
    /\ vote_calls[last.account_id][2].vote_type
         # vote_calls[last.account_id][3].vote_type
    /\ Cardinality(contracts[last.account_id].votes) = 2
    /\ [author_id |-> "alice",
         timestamp |-> vote_calls[last.account_id][1].timestamp,
         vote_type |-> vote_calls[last.account_id][1].vote_type]
          \in contracts[last.account_id].votes

====
